---- MODULE Spec2Model ----
\* Model of production_template_migration.py: the "Show process issues" and
\* "Migrate Template" handlers, the child ordering they share, and the Issue
\* Repository (Jira) they call.
EXTENDS Integers, Sequences, FiniteSets, TLC

\* ------------------------------------------------------------------ bounds
MaxChildren == 2      \* children of the source Epic in a migration run
MaxSrcLinks == 2      \* issue links that exist between source issues
MaxShown    == 3      \* children listed by "Show process issues"
MaxRuns     == 2      \* clicks on "Migrate Template" when the operator repeats a run
MaxFaults   == 1      \* Issue Repository calls that fail in one behaviour

\* ------------------------------------------------------- values of fields
\* A date field of a fetched issue is an ISO string "YYYY-MM-DD", written
\* <<y, m, d>>; a field that is null or absent is None.
None == <<0, 0, 0>>
\* A malformed date value ("2024-13-45"): datetime.fromisoformat raises on it.
Bad  == <<2024, 13, 45>>
\* Python's None for a datetime/date local (real ordinals start at 1).
NoDate == 0

\* --------------------------------------------------- datetime (CPython)
IsLeap(y) == (y % 4 = 0) /\ ((y % 100 # 0) \/ (y % 400 = 0))

DaysInMonth(y, m) ==
    IF m = 2 THEN (IF IsLeap(y) THEN 29 ELSE 28)
    ELSE IF m \in {4, 6, 9, 11} THEN 30 ELSE 31

DaysBeforeYear(y) ==
    LET p == y - 1 IN p * 365 + (p \div 4) - (p \div 100) + (p \div 400)

\* CPython's _DAYS_BEFORE_MONTH table, plus the leap day after February.
DaysBeforeMonth(y, m) ==
    <<0, 31, 59, 90, 120, 151, 181, 212, 243, 273, 304, 334>>[m]
        + (IF m > 2 /\ IsLeap(y) THEN 1 ELSE 0)

\* Whether datetime.fromisoformat accepts the string.
IsIsoDate(s) ==
    /\ s[1] \in 1..9999
    /\ s[2] \in 1..12
    /\ s[3] \in 1..DaysInMonth(s[1], s[2])

\* datetime.fromisoformat(s) for a date-only string: midnight of that day,
\* as the day's proleptic Gregorian ordinal.
fromisoformat(s) == DaysBeforeYear(s[1]) + DaysBeforeMonth(s[1], s[2]) + s[3]

\* date.strftime("%Y-%m-%d"): the ordinal back to year, month, day
\* (CPython's _ord2ymd).
strftime(n) ==
    LET n0   == n - 1
        n400 == n0 \div 146097
        r400 == n0 % 146097
        n100 == r400 \div 36524
        r100 == r400 % 36524
        n4   == r100 \div 1461
        r4   == r100 % 1461
        n1   == r4 \div 365
        r1   == r4 % 365
        year == n400 * 400 + 1 + n100 * 100 + n4 * 4 + n1
    IN  IF n1 = 4 \/ n100 = 4 THEN <<year - 1, 12, 31>>
        ELSE LET m0    == (r1 + 50) \div 32
                 month == IF DaysBeforeMonth(year, m0) > r1 THEN m0 - 1 ELSE m0
             IN  <<year, month, r1 - DaysBeforeMonth(year, month) + 1>>

\* datetime.max, later than midnight of any day fromisoformat can return.
DatetimeMax == fromisoformat(<<9999, 12, 31>>) + 1

\* to_datetime_safe: None for a missing or malformed value.
to_datetime_safe(value) ==
    IF value = None THEN NoDate
    ELSE IF IsIsoDate(value) THEN fromisoformat(value) ELSE NoDate

\* ------------------------------------------------------- child ordering
\* The sort key of ordre_child_issues.
get_start_date(issue) ==
    IF issue.start # None
    THEN (IF IsIsoDate(issue.start) THEN fromisoformat(issue.start) ELSE DatetimeMax)
    ELSE DatetimeMax

\* One insertion of a stable sort: x goes after every element whose key is
\* not greater than its own.
RECURSIVE InsertByKey(_, _)
InsertByKey(sorted, x) ==
    IF sorted = <<>> THEN <<x>>
    ELSE IF get_start_date(Head(sorted)) <= get_start_date(x)
         THEN <<Head(sorted)>> \o InsertByKey(Tail(sorted), x)
         ELSE <<x>> \o sorted

RECURSIVE StableSort(_, _)
StableSort(done, rest) ==
    IF rest = <<>> THEN done
    ELSE StableSort(InsertByKey(done, Head(rest)), Tail(rest))

\* A plausible slip: descending order (reverse=True).
ordre_child_issues_Reversed(issues) ==
    IF issues = <<>> THEN <<>>
    ELSE LET s == StableSort(<<>>, issues)
         IN  [i \in 1..Len(s) |-> s[Len(s) + 1 - i]]

\* A plausible slip: the children are taken in the order of the response.
ordre_child_issues_Unsorted(issues) == issues

\* sorted(issues, key=get_start_date): Python's sort is stable.
ordre_child_issues(issues) == StableSort(<<>>, issues)

\* ------------------------------------------------------- source project
\* Keys the source project gives the Epic's children, in fetch order.
SrcKeys == <<"PPT-1", "PPT-2", "PPT-3", "PPT-4", "PPT-5">>
\* An issue that is not a child of the Epic.
OutsideKey == "EXT-1"

\* Issue types of the destination project (jira.project(key).issueTypes).
DestIssueTypes == << [name |-> "Task", id |-> "10001"],
                     [name |-> "Story", id |-> "10002"] >>

EpicStarts  == {None, <<2024, 1, 15>>, <<2024, 2, 28>>}
EpicDues    == {None, <<2024, 1, 15>>, <<2024, 3, 1>>}
ChosenDates == {<<2024, 2, 29>>, <<2024, 12, 20>>}
ChildStarts == {None, <<2024, 1, 15>>, <<2024, 3, 1>>}
ChildDues   == {None, <<2024, 2, 28>>, <<2024, 3, 1>>}
ShownStarts == {None, Bad, <<2024, 1, 15>>, <<2024, 3, 1>>}
ChildTypes  == {"Task", "Story", "task"}
LinkTypes   == {"Blocks", "Relates"}

\* One issue of a search response.
Issue(key, start, due, type, links) ==
    [key |-> key, start |-> start, due |-> due, type |-> type, issuelinks |-> links]

RECURSIVE SetToSeq(_)
SetToSeq(S) ==
    IF S = {} THEN <<>>
    ELSE LET x == CHOOSE y \in S : TRUE IN <<x>> \o SetToSeq(S \ {x})

RECURSIVE SubsetsUpTo(_, _)
SubsetsUpTo(S, k) ==
    IF k = 0 THEN {{}}
    ELSE LET P == SubsetsUpTo(S, k - 1) IN P \cup {p \cup {x} : p \in P, x \in S}

\* The links that can exist in the source project and touch one of n children.
LinkFacts(n) ==
    LET kids == {SrcKeys[i] : i \in 1..n}
        ends == kids \cup {OutsideKey}
    IN  {f \in [type : LinkTypes, from : ends, to : ends] :
            f.from # f.to /\ (f.from \in kids \/ f.to \in kids)}

\* The "issuelinks" field of issue k: Jira shows a link on both its ends, as
\* an outwardIssue record on its source and an inwardIssue record on its target.
RECURSIVE IssueLinksOf(_, _)
IssueLinksOf(k, facts) ==
    IF facts = <<>> THEN <<>>
    ELSE LET f == Head(facts)
             rest == IssueLinksOf(k, Tail(facts))
         IN  IF f.from = k /\ f.to # k
             THEN <<[type |-> f.type, outwardIssue |-> f.to, inwardIssue |-> ""]>> \o rest
             ELSE IF f.to = k /\ f.from # k
             THEN <<[type |-> f.type, outwardIssue |-> "", inwardIssue |-> f.from]>> \o rest
             ELSE rest

\* Search responses whose children differ in their dates.
DatedResponses(n, starts, dues) ==
    {[i \in 1..n |-> Issue(SrcKeys[i], f[i][1], f[i][2], "Task", <<>>)] :
        f \in [1..n -> starts \X dues]}

\* Search responses whose children differ in their links.
LinkedResponses(n) ==
    {[i \in 1..n |-> Issue(SrcKeys[i], None, None, "Task", IssueLinksOf(SrcKeys[i], SetToSeq(L)))] :
        L \in SubsetsUpTo(LinkFacts(n), MaxSrcLinks)}

\* Each child blocks the next one.
ChainFacts(n) ==
    [i \in 1..(n - 1) |-> [type |-> "Blocks", from |-> SrcKeys[i], to |-> SrcKeys[i + 1]]]

\* Search responses whose children differ in their issue types.
TypedResponses(n) ==
    {[i \in 1..n |-> Issue(SrcKeys[i], None, None, ty[i], IssueLinksOf(SrcKeys[i], ChainFacts(n)))] :
        ty \in [1..n -> ChildTypes]}

\* --------------------------------------------------- "Migrate Template"
\* epic_start_dt: the Epic's start as a datetime, None when it has none.
EpicStartDt(epic_start) ==
    IF epic_start # None THEN fromisoformat(epic_start) ELSE NoDate

\* epic_duration: the int 0 it is initialised to, or the timedelta due - start
\* when the Epic has both dates.
EpicDuration(epic_start, epic_due) ==
    IF epic_start # None /\ epic_due # None
    THEN [kind |-> "timedelta", days |-> fromisoformat(epic_due) - fromisoformat(epic_start)]
    ELSE [kind |-> "int", days |-> 0]

\* new_start_date + epic_duration is defined for a timedelta only: a date plus
\* an int raises TypeError.
DatePlusRaises(epic_duration) == epic_duration.kind # "timedelta"

\* A plausible slip: the due date is the chosen date, the duration forgotten.
NewEpicData_DueIsStart(chosen, epic_duration) ==
    [issuetype         |-> "Epic",
     customfield_10015 |-> strftime(chosen),
     duedate           |-> strftime(chosen),
     customfield_10014 |-> 0]

\* new_epic_data: the fields of the Epic to create.
NewEpicData(chosen, epic_duration) ==
    [issuetype         |-> "Epic",
     customfield_10015 |-> strftime(chosen),
     duedate           |-> strftime(chosen + epic_duration.days),
     customfield_10014 |-> 0]

\* original_links: the snapshot of a child's issuelinks.
RECURSIVE OriginalLinks(_)
OriginalLinks(issuelinks) ==
    IF issuelinks = <<>> THEN <<>>
    ELSE LET link == Head(issuelinks)
             rest == OriginalLinks(Tail(issuelinks))
         IN  IF link.outwardIssue # ""
             THEN <<[type |-> link.type, direction |-> "outward", key |-> link.outwardIssue]>> \o rest
             ELSE IF link.inwardIssue # ""
             THEN <<[type |-> link.type, direction |-> "inward", key |-> link.inwardIssue]>> \o rest
             ELSE rest

\* Whether a fromisoformat call of the child's date computation raises.
ChildDatesRaise(epic_dt, orig_start, orig_due) ==
    \/ epic_dt # NoDate /\ orig_start # None /\ ~IsIsoDate(orig_start)
    \/ orig_start # None /\ orig_due # None /\ (~IsIsoDate(orig_start) \/ ~IsIsoDate(orig_due))

\* A plausible slip: every dated child starts on the chosen date.
NewChildStart_Chosen(epic_dt, orig_start, chosen) ==
    IF epic_dt # NoDate /\ orig_start # None THEN chosen ELSE NoDate

\* A plausible slip: a child without a start date gets the Epic's new start.
NewChildStart_Defaulted(epic_dt, orig_start, chosen) ==
    IF epic_dt # NoDate /\ orig_start # None
    THEN chosen + (fromisoformat(orig_start) - epic_dt)
    ELSE chosen

\* new_child_start: the chosen date plus the child's offset from the Epic's start.
NewChildStart(epic_dt, orig_start, chosen) ==
    IF epic_dt # NoDate /\ orig_start # None
    THEN chosen + (fromisoformat(orig_start) - epic_dt)
    ELSE NoDate

\* new_child_due: the new start plus the child's own duration.
NewChildDue(orig_start, orig_due, new_child_start) ==
    IF orig_start # None /\ orig_due # None
    THEN (IF new_child_start # NoDate
          THEN new_child_start + (fromisoformat(orig_due) - fromisoformat(orig_start))
          ELSE NoDate)
    ELSE NoDate

\* A plausible slip: an unknown type name falls back to the first type.
ChildTypeId_Fallback(issue_types, child_type_name) ==
    IF \E t \in 1..Len(issue_types) : issue_types[t].name = child_type_name
    THEN (CHOOSE t \in {issue_types[j] : j \in 1..Len(issue_types)} : t.name = child_type_name).id
    ELSE issue_types[1].id

\* child_type_id: the id of the first destination type of that name, "" if none.
RECURSIVE ChildTypeId(_, _)
ChildTypeId(issue_types, child_type_name) ==
    IF issue_types = <<>> THEN ""
    ELSE IF Head(issue_types).name = child_type_name THEN Head(issue_types).id
    ELSE ChildTypeId(Tail(issue_types), child_type_name)

\* create_payload: the fields of a child to create; a date key is set only
\* for a date that was computed.
CreatePayload(child_type_id, parent, new_child_start, new_child_due) ==
    [issuetype         |-> child_type_id,
     customfield_10014 |-> parent,
     customfield_10015 |-> IF new_child_start # NoDate THEN strftime(new_child_start) ELSE None,
     duedate           |-> IF new_child_due # NoDate THEN strftime(new_child_due) ELSE None]

\* old_to_new_keys.get(k): 0 stands for None.
KeyOf(keys, k) == IF k \in DOMAIN keys THEN keys[k] ELSE 0

\* The records the link loop visits, in the order of child_links_map.items().
RECURSIVE LinkWork(_)
LinkWork(links_map) ==
    IF links_map = <<>> THEN <<>>
    ELSE [i \in 1..Len(Head(links_map).links) |->
             [old_key |-> Head(links_map).key, n |-> i, link |-> Head(links_map).links[i]]]
         \o LinkWork(Tail(links_map))

\* A plausible slip: only the record's own issue is looked up before the call.
LinkSkipped_OwnKeyOnly(keys, w) == KeyOf(keys, w.old_key) = 0

\* A plausible slip: one record of a pair is enough, so inward ones are skipped.
LinkSkipped_InwardToo(keys, w) ==
    KeyOf(keys, w.old_key) = 0 \/ KeyOf(keys, w.link.key) = 0 \/ w.link.direction = "inward"

\* Whether the link loop skips the record (continue).
LinkSkipped(keys, w) == KeyOf(keys, w.old_key) = 0 \/ KeyOf(keys, w.link.key) = 0

\* A plausible slip: both directions are created from the record's own issue.
LinkArgs_AlwaysOutward(keys, w) ==
    [type |-> w.link.type, inwardIssue |-> KeyOf(keys, w.old_key),
     outwardIssue |-> KeyOf(keys, w.link.key)]

\* The arguments of jira.create_issue_link for the record.
LinkArgs(keys, w) ==
    IF w.link.direction = "outward"
    THEN [type |-> w.link.type, inwardIssue |-> KeyOf(keys, w.old_key),
          outwardIssue |-> KeyOf(keys, w.link.key)]
    ELSE [type |-> w.link.type, inwardIssue |-> KeyOf(keys, w.link.key),
          outwardIssue |-> KeyOf(keys, w.old_key)]

\* ------------------------------------------------ "Show process issues"
\* Days of the due date the chart gives an Epic that has none.
PlaceholderDays == 7

DeltaEpic(epic_dt, chosen) == IF epic_dt # NoDate THEN chosen - epic_dt ELSE 0

EpicStartGantt(epic_dt, chosen) ==
    IF epic_dt # NoDate THEN epic_dt + DeltaEpic(epic_dt, chosen) ELSE chosen

EpicDueGantt(epic_dt, epic_due_dt, chosen) ==
    IF epic_due_dt # NoDate THEN epic_due_dt + DeltaEpic(epic_dt, chosen)
    ELSE EpicStartGantt(epic_dt, chosen) + PlaceholderDays

\* Whether a fromisoformat call of the chart's child loop raises.
RECURSIVE GanttRaises(_)
GanttRaises(children) ==
    IF children = <<>> THEN FALSE
    ELSE LET f == Head(children)
         IN  \/ f.start # None /\ ~IsIsoDate(f.start)
             \/ f.start # None /\ f.due # None /\ ~IsIsoDate(f.due)
             \/ GanttRaises(Tail(children))

\* The chart's child rows: one for each child with a start and a due date.
RECURSIVE GanttRows(_, _)
GanttRows(children, delta_epic) ==
    IF children = <<>> THEN <<>>
    ELSE LET f == Head(children)
             rest == GanttRows(Tail(children), delta_epic)
         IN  IF f.start # None /\ f.due # None
             THEN <<[Task     |-> f.key,
                     Start    |-> fromisoformat(f.start) + delta_epic,
                     Finish   |-> fromisoformat(f.due) + delta_epic,
                     Duration |-> fromisoformat(f.due) - fromisoformat(f.start),
                     Type     |-> f.type]>> \o rest
             ELSE rest

\* The Epic's row, first in the chart when the Epic has both dates.
EpicRow(ep, chosen) ==
    IF ep.start # None /\ ep.due # None
    THEN <<[Task     |-> "Epic",
            Start    |-> EpicStartGantt(to_datetime_safe(ep.start), chosen),
            Finish   |-> EpicDueGantt(to_datetime_safe(ep.start), to_datetime_safe(ep.due), chosen),
            Duration |-> EpicDueGantt(to_datetime_safe(ep.start), to_datetime_safe(ep.due), chosen)
                         - EpicStartGantt(to_datetime_safe(ep.start), chosen),
            Type     |-> "Epic"]>>
    ELSE <<>>

\* ---------------------------------------------------------------- state
VARIABLES
    epic,             \* the source Epic's fields: [start, due]
    new_start_date,   \* the date the operator chose (st.date_input), an ordinal
    srcIssues,        \* the children of the Epic as the search returns them
    phase,            \* the run: NotStarted, CreatingEpic, CreatingChildren,
                      \*          CreatingLinks, Succeeded, Failed
    run,              \* number of the current "Migrate Template" run
    error,            \* the error st.error surfaced, "" for none
    faults,           \* Issue Repository calls that have failed so far
    clicksLeft,       \* times the operator will still click "Migrate Template"
    epic_start_dt,    \* local of the run
    new_epic,         \* key of the Epic the run created, 0 before
    child_issues,     \* the ordered children (of the run, or of the chart)
    idx,              \* position of the child loop, 0 before the fetch
    child_links_map,  \* <<[key, links]>> in insertion order
    old_to_new_keys,  \* KeyMap: source key -> destination key
    li,               \* position of the link loop in LinkWork(child_links_map)
    dest,             \* issues of the destination project, in creation order
    linkCalls,        \* create_issue_link calls made, in order
    chart             \* what "Show process issues" displayed

vars == <<epic, new_start_date, srcIssues, phase, run, error, faults, clicksLeft, epic_start_dt,
          new_epic, child_issues, idx, child_links_map, old_to_new_keys, li, dest,
          linkCalls, chart>>

inputs == <<epic, new_start_date, srcIssues>>

\* What a step of a run leaves alone besides its inputs.
operator == <<run, clicksLeft>>

NoChart == [state |-> "none", epic_due_gantt |-> NoDate, rows |-> <<>>]
NoKeys  == [k \in {} |-> 0]

\* The page before any button was clicked.
Idle ==
    /\ phase = "NotStarted" /\ run = 0 /\ error = "" /\ faults = 0
    /\ epic_start_dt = NoDate /\ new_epic = 0
    /\ child_issues = <<>> /\ idx = 0 /\ child_links_map = <<>>
    /\ old_to_new_keys = NoKeys /\ li = 1
    /\ dest = <<>> /\ linkCalls = <<>> /\ chart = NoChart

\* Templates that differ in their dates.
InitDates ==
    /\ epic \in [start : EpicStarts, due : EpicDues]
    /\ new_start_date \in {fromisoformat(d) : d \in ChosenDates}
    /\ \E n \in 0..MaxChildren : srcIssues \in DatedResponses(n, ChildStarts, ChildDues)

\* Templates that differ in their children's links, or in their issue types.
InitLinks ==
    /\ epic = [start |-> <<2024, 1, 15>>, due |-> <<2024, 3, 1>>]
    /\ new_start_date = fromisoformat(<<2024, 2, 29>>)
    /\ \E n \in 0..MaxChildren : srcIssues \in LinkedResponses(n) \cup TypedResponses(n)

\* One migration run of a template.
Init == (InitDates \/ InitLinks) /\ Idle /\ clicksLeft = 1

\* The operator repeats the migration of one template.
InitRerun ==
    /\ epic \in {[start |-> <<2024, 1, 15>>, due |-> <<2024, 3, 1>>],
                 [start |-> None, due |-> None]}
    /\ new_start_date = fromisoformat(<<2024, 2, 29>>)
    /\ \E n \in 0..MaxChildren : srcIssues \in TypedResponses(n)
    /\ Idle
    /\ clicksLeft = MaxRuns

\* Templates whose children may carry a malformed start date.
InitShow ==
    /\ epic \in [start : EpicStarts, due : EpicDues]
    /\ new_start_date = fromisoformat(<<2024, 2, 29>>)
    /\ \E n \in 0..MaxShown : srcIssues \in DatedResponses(n, ShownStarts, {None, <<2024, 3, 1>>})
    /\ Idle
    /\ clicksLeft = 0

\* Outcomes of one Issue Repository call: it may fail while faults remain.
CallOutcomes == IF faults < MaxFaults THEN BOOLEAN ELSE {TRUE}

\* A handler that notes the error and lets the run go on.
Fail_Swallowed(reason) ==
    /\ phase' = phase
    /\ error' = reason
    /\ faults' = IF reason = "JIRAError" THEN faults + 1 ELSE faults

\* The except handler of the run: st.error(...).
Fail(reason) ==
    /\ phase' = "Failed"
    /\ error' = reason
    /\ faults' = IF reason = "JIRAError" THEN faults + 1 ELSE faults

\* --------------------------------------------------------------- actions
\* The "Show process issues" handler.
ShowProcessIssues ==
    /\ phase = "NotStarted" /\ chart.state = "none"
    /\ \E okSearch \in CallOutcomes : \E okIssue \in CallOutcomes :
        LET ordered == ordre_child_issues(srcIssues)
            esd     == to_datetime_safe(epic.start)
            edd     == to_datetime_safe(epic.due)
            delta   == DeltaEpic(esd, new_start_date)
            rows    == EpicRow(epic, new_start_date) \o GanttRows(ordered, delta)
        IN  IF ~okSearch
            THEN /\ chart' = [NoChart EXCEPT !.state = "error"]
                 /\ child_issues' = <<>>
                 /\ faults' = faults + 1
            ELSE IF ordered = <<>>
            THEN /\ chart' = [NoChart EXCEPT !.state = "info"]
                 /\ child_issues' = ordered
                 /\ faults' = faults
            ELSE IF ~okIssue
            THEN /\ chart' = [NoChart EXCEPT !.state = "error"]
                 /\ child_issues' = ordered
                 /\ faults' = faults + 1
            ELSE IF GanttRaises(ordered)
            THEN /\ chart' = [state |-> "error",
                              epic_due_gantt |-> EpicDueGantt(esd, edd, new_start_date),
                              rows |-> <<>>]
                 /\ child_issues' = ordered
                 /\ faults' = faults
            ELSE /\ chart' = [state |-> IF rows = <<>> THEN "info" ELSE "chart",
                              epic_due_gantt |-> EpicDueGantt(esd, edd, new_start_date),
                              rows |-> rows]
                 /\ child_issues' = ordered
                 /\ faults' = faults
    /\ UNCHANGED <<inputs, operator, phase, error, epic_start_dt, new_epic, idx,
                   child_links_map, old_to_new_keys, li, dest, linkCalls>>

\* The "Migrate Template" button: the script runs again from the top, so the
\* chart is no longer drawn and the run's locals are fresh.
MigrateClick ==
    /\ phase \in {"NotStarted", "Succeeded", "Failed"}
    /\ clicksLeft > 0
    /\ clicksLeft' = clicksLeft - 1
    /\ run' = run + 1
    /\ phase' = "CreatingEpic"
    /\ error' = ""
    /\ epic_start_dt' = NoDate /\ new_epic' = 0
    /\ child_issues' = <<>> /\ idx' = 0 /\ child_links_map' = <<>>
    /\ old_to_new_keys' = NoKeys /\ li' = 1
    /\ chart' = NoChart
    /\ UNCHANGED <<inputs, faults, dest, linkCalls>>

\* Fetch the Epic, compute its dates, create the new Epic.
CreateEpic ==
    /\ phase = "CreatingEpic"
    /\ \E okIssue \in CallOutcomes : \E okCreate \in CallOutcomes :
        LET epic_duration == EpicDuration(epic.start, epic.due)
        IN  IF ~okIssue
            THEN Fail("JIRAError") /\ UNCHANGED <<epic_start_dt, new_epic, dest>>
            ELSE IF epic.start # None
                    /\ (~IsIsoDate(epic.start) \/ (epic.due # None /\ ~IsIsoDate(epic.due)))
            THEN Fail("ValueError") /\ UNCHANGED <<epic_start_dt, new_epic, dest>>
            ELSE IF DatePlusRaises(epic_duration)
            THEN /\ Fail("TypeError")
                 /\ epic_start_dt' = EpicStartDt(epic.start)
                 /\ UNCHANGED <<new_epic, dest>>
            ELSE IF ~okCreate
            THEN /\ Fail("JIRAError")
                 /\ epic_start_dt' = EpicStartDt(epic.start)
                 /\ UNCHANGED <<new_epic, dest>>
            ELSE /\ epic_start_dt' = EpicStartDt(epic.start)
                 /\ new_epic' = Len(dest) + 1
                 /\ dest' = Append(dest,
                        [key |-> Len(dest) + 1, run |-> run, src |-> "Epic",
                         fields |-> NewEpicData(new_start_date, epic_duration)])
                 /\ phase' = "CreatingChildren"
                 /\ UNCHANGED <<error, faults>>
    /\ UNCHANGED <<inputs, operator, child_issues, idx, child_links_map, old_to_new_keys,
                   li, linkCalls, chart>>

\* get_child_issues_for_epic: the search, then ordre_child_issues.
FetchChildren ==
    /\ phase = "CreatingChildren" /\ idx = 0
    /\ \E okSearch \in CallOutcomes :
        IF ~okSearch
        THEN Fail("JIRAError") /\ UNCHANGED <<child_issues, idx>>
        ELSE /\ child_issues' = ordre_child_issues(srcIssues)
             /\ idx' = 1
             /\ phase' = IF srcIssues = <<>> THEN "CreatingLinks" ELSE phase
             /\ UNCHANGED <<error, faults>>
    /\ UNCHANGED <<inputs, operator, epic_start_dt, new_epic, child_links_map,
                   old_to_new_keys, li, dest, linkCalls, chart>>

\* One iteration of the child loop.
MigrateChild ==
    /\ phase = "CreatingChildren" /\ idx \in 1..Len(child_issues)
    /\ \E okProject \in CallOutcomes : \E okCreate \in CallOutcomes :
        LET ch    == child_issues[idx]
            start == NewChildStart(epic_start_dt, ch.start, new_start_date)
            due   == NewChildDue(ch.start, ch.due, start)
            tid   == ChildTypeId(DestIssueTypes, ch.type)
        IN  /\ child_links_map' = Append(child_links_map,
                    [key |-> ch.key, links |-> OriginalLinks(ch.issuelinks)])
            /\ IF ChildDatesRaise(epic_start_dt, ch.start, ch.due)
               THEN Fail("ValueError") /\ UNCHANGED <<idx, old_to_new_keys, dest>>
               ELSE IF ~okProject
               THEN Fail("JIRAError") /\ UNCHANGED <<idx, old_to_new_keys, dest>>
               ELSE IF tid = ""
               THEN Fail("UnsupportedIssueType") /\ UNCHANGED <<idx, old_to_new_keys, dest>>
               ELSE IF ~okCreate
               THEN Fail("JIRAError") /\ UNCHANGED <<idx, old_to_new_keys, dest>>
               ELSE /\ dest' = Append(dest,
                        [key |-> Len(dest) + 1, run |-> run, src |-> ch.key,
                         fields |-> CreatePayload(tid, new_epic, start, due)])
                    /\ old_to_new_keys' =
                        [k \in DOMAIN old_to_new_keys \cup {ch.key} |->
                            IF k = ch.key THEN Len(dest) + 1 ELSE old_to_new_keys[k]]
                    /\ idx' = idx + 1
                    /\ phase' = IF idx = Len(child_issues) THEN "CreatingLinks" ELSE phase
                    /\ UNCHANGED <<error, faults>>
    /\ UNCHANGED <<inputs, operator, epic_start_dt, new_epic, child_issues, li, linkCalls, chart>>

\* One record of the link loop: skipped, or recreated between the new keys.
RecreateLink ==
    /\ phase = "CreatingLinks" /\ li \in 1..Len(LinkWork(child_links_map))
    /\ \E okLink \in CallOutcomes :
        LET w == LinkWork(child_links_map)[li]
        IN  IF LinkSkipped(old_to_new_keys, w)
            THEN li' = li + 1 /\ UNCHANGED <<phase, error, faults, linkCalls>>
            ELSE IF ~okLink
            THEN Fail("JIRAError") /\ UNCHANGED <<li, linkCalls>>
            ELSE /\ linkCalls' = Append(linkCalls,
                        [run |-> run, at |-> li, args |-> LinkArgs(old_to_new_keys, w)])
                 /\ li' = li + 1
                 /\ UNCHANGED <<phase, error, faults>>
    /\ UNCHANGED <<inputs, operator, epic_start_dt, new_epic, child_issues, idx,
                   child_links_map, old_to_new_keys, dest, chart>>

\* st.success("Successful migration!") after the link loop.
ReportSuccess ==
    /\ phase = "CreatingLinks" /\ li = Len(LinkWork(child_links_map)) + 1
    /\ phase' = "Succeeded"
    /\ UNCHANGED <<inputs, operator, error, faults, epic_start_dt, new_epic, child_issues,
                   idx, child_links_map, old_to_new_keys, li, dest, linkCalls, chart>>

Next ==
    \/ ShowProcessIssues
    \/ MigrateClick
    \/ CreateEpic
    \/ FetchChildren
    \/ MigrateChild
    \/ RecreateLink
    \/ ReportSuccess

Spec == Init /\ [][Next]_vars

NextShow == ShowProcessIssues

SpecShow == InitShow /\ [][NextShow]_vars

SpecRerun == InitRerun /\ [][Next]_vars

\* ------------------------------------------------------------ properties
\* Issues the current run created: the Epic, and the children.
RunEpics    == {i \in 1..Len(dest) : dest[i].run = run /\ dest[i].src = "Epic"}
RunChildren == {i \in 1..Len(dest) : dest[i].run = run /\ dest[i].src # "Epic"}
RunLinks    == {i \in 1..Len(linkCalls) : linkCalls[i].run = run}

\* The source child a created issue was made from.
SrcChild(d) == CHOOSE c \in {srcIssues[j] : j \in 1..Len(srcIssues)} : c.key = d.src

HasBothDates(e) == e.start # None /\ e.due # None

\* C1: the Epic a run creates from a source Epic with both dates starts on the
\* chosen date and lasts as many days as the source Epic.
C1_EpicDurationPreserved ==
    \A i \in 1..Len(dest) :
        (dest[i].src = "Epic" /\ HasBothDates(epic)) =>
            LET f == dest[i].fields
            IN  /\ IsIsoDate(f.customfield_10015) /\ IsIsoDate(f.duedate)
                /\ fromisoformat(f.customfield_10015) = new_start_date
                /\ fromisoformat(f.duedate) - fromisoformat(f.customfield_10015)
                     = fromisoformat(epic.due) - fromisoformat(epic.start)

\* An Epic lasting 46 days was recreated at the end of December.
C1_Witness ==
    /\ phase = "Succeeded"
    /\ epic = [start |-> <<2024, 1, 15>>, due |-> <<2024, 3, 1>>]
    /\ new_start_date = fromisoformat(<<2024, 12, 20>>)
    /\ \E i \in RunEpics : dest[i].fields.duedate = <<2025, 2, 4>>

\* C3: every child a run creates is shifted by the one delta of the run,
\* chosen date minus the Epic's original start, in its start and in its due date.
C3_UniformDelta ==
    \A i \in 1..Len(dest) :
        (dest[i].src # "Epic" /\ epic.start # None /\ SrcChild(dest[i]).start # None) =>
            LET f     == dest[i].fields
                c     == SrcChild(dest[i])
                delta == new_start_date - fromisoformat(epic.start)
            IN  /\ IsIsoDate(f.customfield_10015)
                /\ fromisoformat(f.customfield_10015) - fromisoformat(c.start) = delta
                /\ c.due # None =>
                     /\ IsIsoDate(f.duedate)
                     /\ fromisoformat(f.duedate) - fromisoformat(c.due) = delta

\* Two children with different start dates, one of them with a due date,
\* were created in one run under a delta that is not zero.
C3_Witness ==
    /\ phase = "Succeeded"
    /\ new_start_date # fromisoformat(epic.start)
    /\ \E i, j \in RunChildren :
        /\ SrcChild(dest[i]).start # None /\ SrcChild(dest[j]).start # None
        /\ SrcChild(dest[i]).start # SrcChild(dest[j]).start
        /\ SrcChild(dest[i]).due # None

\* C4: a created child carries a start date exactly when its source has one,
\* and a due date exactly when its source has both a start and a due date.
C4_ChildDatesPresence ==
    \A i \in 1..Len(dest) :
        dest[i].src # "Epic" =>
            LET f == dest[i].fields
                c == SrcChild(dest[i])
            IN  /\ (f.customfield_10015 # None) <=> (c.start # None)
                /\ (f.duedate # None) <=> (c.start # None /\ c.due # None)

\* A child with only a start date and a child with only a due date were
\* created in one run.
C4_Witness ==
    /\ phase = "Succeeded"
    /\ \E i, j \in RunChildren :
        /\ SrcChild(dest[i]).start # None /\ SrcChild(dest[i]).due = None
        /\ dest[i].fields.customfield_10015 # None /\ dest[i].fields.duedate = None
        /\ SrcChild(dest[j]).start = None /\ SrcChild(dest[j]).due # None
        /\ dest[j].fields.customfield_10015 = None /\ dest[j].fields.duedate = None

\* A start date ordre_child_issues can place: present and well-formed.
Dated(issue) == issue.start # None /\ IsIsoDate(issue.start)

\* a is not later than b, read off the year, month and day of the strings.
NotLater(a, b) ==
    \/ a[1] < b[1]
    \/ a[1] = b[1] /\ a[2] < b[2]
    \/ a[1] = b[1] /\ a[2] = b[2] /\ a[3] <= b[3]

\* Position of the issue in the response.
FetchPos(issue) == CHOOSE j \in 1..Len(srcIssues) : srcIssues[j].key = issue.key

\* The chart handler got the children (its search returned).
Listed == chart.state # "none" /\ Len(child_issues) = Len(srcIssues)

\* C5: ordre_child_issues returns a permutation of the response in ascending
\* start-date order, the children without a usable start date last, ties in
\* the order of the response; [2024-03-01, missing, 2024-01-15] comes out as
\* [2024-01-15, 2024-03-01, missing].
C5_StableAscendingOrder ==
    Listed =>
        /\ \A j \in 1..Len(srcIssues) : \E i \in 1..Len(child_issues) : child_issues[i] = srcIssues[j]
        /\ \A i, j \in 1..Len(child_issues) : i < j =>
            /\ child_issues[i].key # child_issues[j].key
            /\ Dated(child_issues[j]) =>
                 /\ Dated(child_issues[i])
                 /\ NotLater(child_issues[i].start, child_issues[j].start)
            /\ (\/ ~Dated(child_issues[i]) /\ ~Dated(child_issues[j])
                \/ child_issues[i].start = child_issues[j].start) =>
                 FetchPos(child_issues[i]) < FetchPos(child_issues[j])
        /\ [i \in 1..Len(srcIssues) |-> srcIssues[i].start] = << <<2024, 3, 1>>, None, <<2024, 1, 15>> >> =>
             [i \in 1..Len(child_issues) |-> child_issues[i].start] = << <<2024, 1, 15>>, <<2024, 3, 1>>, None >>

\* The response [2024-03-01, malformed, 2024-03-01] was ordered: a tie of two
\* dated children ahead of a child with an unparsable start date.
C5_Witness ==
    /\ Listed
    /\ [i \in 1..Len(srcIssues) |-> srcIssues[i].start] = << <<2024, 3, 1>>, Bad, <<2024, 3, 1>> >>
    /\ [i \in 1..Len(child_issues) |-> child_issues[i].key] = <<SrcKeys[1], SrcKeys[3], SrcKeys[2]>>

\* The records of the link loop, and whether both ends are in KeyMap.
Work == LinkWork(child_links_map)
BothMigrated(w) == w.old_key \in DOMAIN old_to_new_keys /\ w.link.key \in DOMAIN old_to_new_keys
LinkPhaseReached == idx >= 1 /\ idx = Len(child_issues) + 1

\* C6: in the link phase a create-link call is made for a record exactly when
\* both its ends are keys of KeyMap; a record with an end outside KeyMap makes
\* no call and no error.
C6_EndpointFiltered ==
    /\ \A c \in RunLinks :
        /\ linkCalls[c].at \in 1..Len(Work)
        /\ BothMigrated(Work[linkCalls[c].at])
    /\ LinkPhaseReached =>
        /\ \A k \in 1..Len(Work) : k < li =>
            (BothMigrated(Work[k]) <=> Cardinality({c \in RunLinks : linkCalls[c].at = k}) = 1)
        /\ \A k \in 1..Len(Work) : k >= li => {c \in RunLinks : linkCalls[c].at = k} = {}
        /\ phase = "Failed" => (error = "JIRAError" /\ li \in 1..Len(Work) /\ BothMigrated(Work[li]))
        /\ phase = "Succeeded" => li = Len(Work) + 1

\* A run succeeded that made a create-link call and dropped a record whose far
\* end is outside the template.
C6_Witness ==
    /\ phase = "Succeeded"
    /\ RunLinks # {}
    /\ \E k \in 1..Len(Work) : Work[k].link.key = OutsideKey
    /\ \E k \in 1..Len(Work) : BothMigrated(Work[k])

\* The raw issuelinks record a link call was made for.
RawOf(w) ==
    (CHOOSE c \in {srcIssues[j] : j \in 1..Len(srcIssues)} : c.key = w.old_key).issuelinks[w.n]

\* C7: every create-link call keeps the record's type and direction: for an
\* outwardIssue record on A to B it links KeyMap[A] outward to KeyMap[B], for
\* an inwardIssue record on A from B it links KeyMap[B] outward to KeyMap[A].
C7_DirectionPreserved ==
    \A c \in RunLinks :
        LET w   == Work[linkCalls[c].at]
            raw == RawOf(w)
            a   == linkCalls[c].args
        IN  /\ a.type = raw.type
            /\ raw.outwardIssue # "" =>
                 /\ a.inwardIssue = old_to_new_keys[w.old_key]
                 /\ a.outwardIssue = old_to_new_keys[raw.outwardIssue]
            /\ raw.outwardIssue = "" =>
                 /\ a.inwardIssue = old_to_new_keys[raw.inwardIssue]
                 /\ a.outwardIssue = old_to_new_keys[w.old_key]

\* A run succeeded that recreated an outward "Blocks" record and an inward
\* "Relates" record, between different new keys.
C7_Witness ==
    /\ phase = "Succeeded"
    /\ \E c, d \in RunLinks :
        /\ RawOf(Work[linkCalls[c].at]).outwardIssue # ""
        /\ linkCalls[c].args.type = "Blocks"
        /\ RawOf(Work[linkCalls[d].at]).inwardIssue # ""
        /\ linkCalls[d].args.type = "Relates"
        /\ linkCalls[c].args.inwardIssue # linkCalls[c].args.outwardIssue

\* Whether the destination project has an issue type of exactly that name.
TypeKnown(name) == \E t \in 1..Len(DestIssueTypes) : DestIssueTypes[t].name = name

\* Position of a created child's source in the order of the run.
OrderPos(d) == CHOOSE j \in 1..Len(child_issues) : child_issues[j].key = d.src

\* C8: a child whose type name matches no destination type is not created,
\* nor is any child after it, and no link is created; the run is Failed with
\* the error surfaced, and the children before it stay created.
C8_UnsupportedTypeAborts ==
    /\ \A i \in RunChildren :
        /\ \E j \in 1..Len(child_issues) : child_issues[j].key = dest[i].src
        /\ \A j \in 1..OrderPos(dest[i]) : TypeKnown(child_issues[j].type)
    /\ (idx >= 1 /\ \E j \in 1..Len(child_issues) : ~TypeKnown(child_issues[j].type)) =>
        /\ RunLinks = {}
        /\ phase \in {"CreatingChildren", "Failed"}
    /\ (phase = "Failed" /\ error = "UnsupportedIssueType") =>
        /\ idx \in 1..Len(child_issues)
        /\ ~TypeKnown(child_issues[idx].type)
        /\ {dest[i].src : i \in RunChildren} = {child_issues[j].key : j \in 1..(idx - 1)}
    /\ (phase = "CreatingChildren" /\ idx >= 1) =>
        \A j \in 1..(idx - 1) : TypeKnown(child_issues[j].type)

\* A run failed on its second child, of type "task", with the first child
\* created and a link between the two left uncreated.
C8_Witness ==
    /\ phase = "Failed" /\ error = "UnsupportedIssueType"
    /\ idx = 2 /\ child_issues[2].type = "task"
    /\ Cardinality(RunChildren) = 1
    /\ Len(Work) >= 1

\* The run is over and no Issue Repository call of it failed.
RunOverNoFault == run >= 1 /\ phase \in {"Succeeded", "Failed"} /\ error # "JIRAError"

\* C2: a run on an Epic with no children and no dates, every call succeeding,
\* creates the Epic alone, no child and no link, and ends Succeeded.
C2_DatelessEmptyEpicSucceeds ==
    (RunOverNoFault /\ srcIssues = <<>> /\ epic.start = None /\ epic.due = None) =>
        /\ phase = "Succeeded"
        /\ Cardinality(RunEpics) = 1
        /\ RunChildren = {}
        /\ RunLinks = {}

\* C9: for an Epic without a start date the run uses delta 0: the Epic is
\* created starting on the chosen date and every child with a start date is
\* created with that same start date.
C9_NoEpicStartMeansDeltaZero ==
    (RunOverNoFault /\ epic.start = None) =>
        /\ \E i \in RunEpics : dest[i].fields.customfield_10015 = strftime(new_start_date)
        /\ \A j \in 1..Len(srcIssues) : srcIssues[j].start # None =>
             \E i \in RunChildren :
                /\ dest[i].src = srcIssues[j].key
                /\ dest[i].fields.customfield_10015 = srcIssues[j].start

\* C10: the created Epic carries a due date only when the source Epic has both
\* dates; for a source Epic with a start date and no due date the Epic is
\* created without a due date, never with the chart's 7-day placeholder.
C10_EpicDueOnlyWithBothDates ==
    /\ \A i \in 1..Len(dest) :
        (dest[i].src = "Epic" /\ dest[i].fields.duedate # None) => HasBothDates(epic)
    /\ (RunOverNoFault /\ epic.start # None /\ epic.due = None) =>
        \E i \in RunEpics :
            /\ dest[i].fields.duedate = None
            /\ dest[i].fields.duedate
                 # strftime(EpicDueGantt(EpicStartDt(epic.start), NoDate, new_start_date))

\* The calls of the run that completed are all the calls the run has to make.
RunComplete ==
    /\ Cardinality(RunEpics) = 1
    /\ {dest[i].src : i \in RunChildren} = {srcIssues[j].key : j \in 1..Len(srcIssues)}
    /\ Cardinality(RunChildren) = Len(srcIssues)
    /\ \A k \in 1..Len(Work) :
        BothMigrated(Work[k]) => \E c \in RunLinks : linkCalls[c].at = k

\* What C11 requires of every state.
C11_State ==
    /\ phase = "Succeeded" => (error = "" /\ RunComplete)
    /\ phase = "Failed" => error # ""
    /\ RunEpics = {} => (RunChildren = {} /\ RunLinks = {})

\* What C11 requires of every step: a failed call of a run ends the run as
\* Failed without creating anything, a Failed run issues no call and stays
\* Failed, and no created issue or link is ever taken away.
C11_Step ==
    /\ (faults' > faults /\ phase # "NotStarted") =>
        (phase' = "Failed" /\ dest' = dest /\ linkCalls' = linkCalls)
    /\ (phase = "Failed" /\ run' = run) =>
        (phase' = "Failed" /\ dest' = dest /\ linkCalls' = linkCalls)
    /\ Len(dest') >= Len(dest) /\ SubSeq(dest', 1, Len(dest)) = dest
    /\ Len(linkCalls') >= Len(linkCalls)
    /\ SubSeq(linkCalls', 1, Len(linkCalls)) = linkCalls

\* C11: a run is Succeeded only with its Epic, all its children and all its
\* links created; a failed Issue Repository call at any step makes the run
\* Failed, after which the run creates nothing more, never becomes Succeeded
\* and keeps what it created; when the Epic create fails no child is created.
C11_FailureStopsRun == []C11_State /\ [][C11_Step]_vars

\* A run failed on a create-link call after creating its Epic and two
\* children, which are still in the destination.
C11_Witness ==
    /\ phase = "Failed" /\ error = "JIRAError"
    /\ LinkPhaseReached
    /\ Cardinality(RunEpics) = 1
    /\ Cardinality(RunChildren) = 2
    /\ li \in 1..Len(Work)

\* The issues a given run created for a given source ("Epic" or a child key).
CopiesOf(r, src) == {i \in 1..Len(dest) : dest[i].run = r /\ dest[i].src = src}

\* The destination keys of the issues a given run created.
KeysOfRun(r) == {dest[i].key : i \in {j \in 1..Len(dest) : dest[j].run = r}}

\* The destination keys held by the KeyMap of the current run.
KeyMapKeys == {old_to_new_keys[k] : k \in DOMAIN old_to_new_keys} \ {0}

\* C12: after two runs on the same inputs in which no call failed and every
\* child type exists in the destination, the destination holds two Epics and
\* two copies of every child, all under different keys; the second run starts
\* with an empty KeyMap, which never holds a key of the first run.
C12_TwoRunsTwoCopies ==
    /\ (run = 2 /\ phase = "CreatingEpic") => KeyMapKeys = {}
    /\ run = 2 => KeyMapKeys \cap KeysOfRun(1) = {}
    /\ (run = 2 /\ phase \in {"Succeeded", "Failed"} /\ faults = 0
          /\ \A j \in 1..Len(srcIssues) : TypeKnown(srcIssues[j].type)) =>
        /\ \A r \in 1..2 :
            /\ Cardinality(CopiesOf(r, "Epic")) = 1
            /\ \A j \in 1..Len(srcIssues) :
                 Cardinality(CopiesOf(r, srcIssues[j].key)) = 1
        /\ \A i, j \in 1..Len(dest) : i # j => dest[i].key # dest[j].key

\* The phase changes a run may make.
PhaseOrder ==
    {<<"NotStarted", "CreatingEpic">>,
     <<"CreatingEpic", "CreatingChildren">>,
     <<"CreatingChildren", "CreatingLinks">>,
     <<"CreatingLinks", "Succeeded">>,
     <<"CreatingEpic", "Failed">>,
     <<"CreatingChildren", "Failed">>,
     <<"CreatingLinks", "Failed">>}

\* What C13 requires of every state: the Epic is created before the children,
\* the children in ascending start-date order with ties in response order,
\* KeyMap holds exactly the children created so far, and a link is created
\* only once every child is.
C13_State ==
    /\ phase \in {"NotStarted", "CreatingEpic"} => (RunEpics = {} /\ RunChildren = {})
    /\ \A i \in RunChildren : \E e \in RunEpics : e < i
    /\ \A i, j \in RunChildren : i < j =>
        LET a == SrcChild(dest[i])
            b == SrcChild(dest[j])
        IN  /\ Dated(b) => (Dated(a) /\ NotLater(a.start, b.start))
            /\ (\/ ~Dated(a) /\ ~Dated(b)
                \/ Dated(a) /\ Dated(b) /\ a.start = b.start) => FetchPos(a) < FetchPos(b)
    /\ run >= 1 => /\ DOMAIN old_to_new_keys = {dest[i].src : i \in RunChildren}
                   /\ \A i \in RunChildren : old_to_new_keys[dest[i].src] = dest[i].key
    /\ phase \in {"NotStarted", "CreatingEpic", "CreatingChildren"} => RunLinks = {}
    /\ RunLinks # {} => Cardinality(RunChildren) = Len(srcIssues)

\* What C13 requires of every step of a run: the phase moves along PhaseOrder
\* or stays inside the child loop or the link loop, nothing leaves Failed or
\* Succeeded, and at most one issue is created at a time.
C13_Step ==
    run' = run =>
        /\ \/ <<phase, phase'>> \in PhaseOrder
           \/ phase' = phase /\ phase \in {"NotStarted", "CreatingChildren", "CreatingLinks"}
        /\ Len(dest') <= Len(dest) + 1
        /\ Len(dest') = Len(dest) + 1 =>
             IF phase = "CreatingEpic" THEN dest'[Len(dest')].src = "Epic"
             ELSE /\ phase = "CreatingChildren"
                  /\ dest'[Len(dest')].src = child_issues[idx].key
                  /\ old_to_new_keys' =
                       [k \in DOMAIN old_to_new_keys \cup {child_issues[idx].key} |->
                          IF k = child_issues[idx].key THEN dest'[Len(dest')].key
                          ELSE old_to_new_keys[k]]
        /\ Len(linkCalls') > Len(linkCalls) => phase = "CreatingLinks"

\* C13: in every run the create calls come in the order NotStarted,
\* CreatingEpic, CreatingChildren, CreatingLinks, Succeeded: the Epic create
\* before every child create, the children one at a time in the order of
\* ordre_child_issues, each recorded in KeyMap as it is created, no create-link
\* call before the last child is created; Failed is entered only from the
\* three Creating phases and is never left.
C13_CreateOrder == []C13_State /\ [][C13_Step]_vars

\* A run succeeded that created, after its Epic, two children in the opposite
\* of their response order, because the second child starts earlier.
C13_Witness ==
    /\ phase = "Succeeded"
    /\ \E i, j \in RunChildren :
        /\ i < j
        /\ FetchPos(SrcChild(dest[i])) > FetchPos(SrcChild(dest[j]))
    /\ Cardinality(RunEpics) = 1

\* The relations between two children of the response: child a holds an
\* outward record of type t to child b, and b the matching inward record.
SymmetricPairs ==
    {p \in [a : 1..Len(srcIssues), b : 1..Len(srcIssues), t : LinkTypes] :
        /\ \E n \in 1..Len(srcIssues[p.a].issuelinks) :
            /\ srcIssues[p.a].issuelinks[n].type = p.t
            /\ srcIssues[p.a].issuelinks[n].outwardIssue = srcIssues[p.b].key
        /\ \E n \in 1..Len(srcIssues[p.b].issuelinks) :
            /\ srcIssues[p.b].issuelinks[n].type = p.t
            /\ srcIssues[p.b].issuelinks[n].outwardIssue = ""
            /\ srcIssues[p.b].issuelinks[n].inwardIssue = srcIssues[p.a].key}

\* The create-link calls of the run made with the triple of the pair.
PairCalls(p) ==
    {c \in RunLinks :
        linkCalls[c].args = [type         |-> p.t,
                             inwardIssue  |-> KeyOf(old_to_new_keys, srcIssues[p.a].key),
                             outwardIssue |-> KeyOf(old_to_new_keys, srcIssues[p.b].key)]}

\* C14 as claimed: a successful run makes exactly one create-link call for
\* each relation between two migrated children, and passes no (type, inward
\* key, outward key) triple to create-link twice.
C14_OneCallPerRelation ==
    phase = "Succeeded" =>
        /\ \A p \in SymmetricPairs : Cardinality(PairCalls(p)) = 1
        /\ \A c, d \in RunLinks : c # d => linkCalls[c].args # linkCalls[d].args

\* C14: a successful run makes one create-link call for each link record
\* whose two ends are migrated, so for each relation between two migrated
\* children it makes exactly two calls with the same type, inward key and
\* outward key: one for the outward record and one for the inward record.
C14_OneCallPerRecord ==
    phase = "Succeeded" =>
        /\ \A p \in SymmetricPairs :
            /\ Cardinality(PairCalls(p)) = 2
            /\ \E c, d \in PairCalls(p) :
                /\ Work[linkCalls[c].at].link.direction = "outward"
                /\ Work[linkCalls[d].at].link.direction = "inward"
        /\ Cardinality(RunLinks)
             = Cardinality({k \in 1..Len(Work) : BothMigrated(Work[k])})

\* A run succeeded on two children related by one "Blocks" link, and made two
\* create-link calls.
C14_Witness ==
    /\ phase = "Succeeded"
    /\ Cardinality(SymmetricPairs) = 1
    /\ \E p \in SymmetricPairs : p.t = "Blocks" /\ Cardinality(PairCalls(p)) = 2
    /\ Cardinality(RunLinks) = 2

====
